---- MODULE Spec2Model ----
(***************************************************************************)
(* Luna Breast (app.py): rule-based extraction of BI-RADS, density and     *)
(* laterality from a mammogram report, optional LLM enrichment merged by a *)
(* per-field override, a plain-language summary and a follow-up date.      *)
(*                                                                         *)
(* Text is a sequence of one-character strings; the regular expressions of *)
(* the extractors are evaluated on the characters.  A Python value is a    *)
(* record [t, i, s]: t is its type, i its integer value, s its string.     *)
(***************************************************************************)
EXTENDS Integers, Sequences, FiniteSets, TLC

VARIABLES pc, text_input, file, use_llm, raw_text, base, extraction,
          llm, llmEvent, today, due, cal, summary, message, sms, result

vars == <<pc, text_input, file, use_llm, raw_text, base, extraction,
          llm, llmEvent, today, due, cal, summary, message, sms, result>>

(* ------------------------------ bounds --------------------------------- *)
\* longest report text, in fragments, the extractors are applied to
MaxFragments == 2
\* longest pasted report, in fragments, of a run of the page
MaxReportFragments == 1
\* largest BI-RADS argument given to the timeframe lookup and the merge
MaxBirads == 8

(* --------------------------- Python values ----------------------------- *)
None == [t |-> "none", i |-> 0, s |-> ""]
PyInt(n) == [t |-> "int", i |-> n, s |-> ""]
PyStr(x) == [t |-> "str", i |-> 0, s |-> x]
\* a JSON array or object used as a field value: not hashable
List == [t |-> "list", i |-> 0, s |-> ""]
\* the key is not in the dict
Missing == [t |-> "missing", i |-> 0, s |-> ""]

\* the value raised by hashing a list or a dict
Raised == [t |-> "TypeError", i |-> 0, s |-> ""]

Keys == <<"birads", "density", "laterality", "findings", "recommendation",
          "recommended_timeframe_days">>
KeySet == {Keys[n] : n \in 1..Len(Keys)}
\* a parsed JSON response: an object ("dict", d gives the value of each key),
\* a number, boolean or null ("scalar"), or an array or string ("seq", d[k]
\* is not Missing when the key k is an element or a substring of it)
EmptyDict == [shape |-> "dict", d |-> [k \in KeySet |-> Missing]]

(* ------------------------------ characters ----------------------------- *)
UpperToLower ==
  [A |-> "a", B |-> "b", C |-> "c", D |-> "d", E |-> "e", F |-> "f",
   G |-> "g", H |-> "h", I |-> "i", J |-> "j", K |-> "k", L |-> "l",
   M |-> "m", N |-> "n", O |-> "o", P |-> "p", Q |-> "q", R |-> "r",
   S |-> "s", T |-> "t", U |-> "u", V |-> "v", W |-> "w", X |-> "x",
   Y |-> "y", Z |-> "z"]
\* re.IGNORECASE: characters are compared after case folding
Lower(c) == IF c \in DOMAIN UpperToLower THEN UpperToLower[c] ELSE c
LowerLetters == {UpperToLower[c] : c \in DOMAIN UpperToLower}
DigitVal ==
  [c \in {"0", "1", "2", "3", "4", "5", "6", "7", "8", "9"} |->
     CASE c = "0" -> 0 [] c = "1" -> 1 [] c = "2" -> 2 [] c = "3" -> 3
       [] c = "4" -> 4 [] c = "5" -> 5 [] c = "6" -> 6 [] c = "7" -> 7
       [] c = "8" -> 8 [] c = "9" -> 9]
\* \d
IsDigit(c) == c \in DOMAIN DigitVal
\* \s
IsSpace(c) == c \in {" ", "\t", "\n", "\r"}
\* \w
IsWord(c) == Lower(c) \in LowerLetters \/ IsDigit(c) \/ c = "_"

\* the literal lit (lower case) occurs in t at position p, ignoring case
Lit(t, p, lit) ==
  /\ p >= 1
  /\ p + Len(lit) - 1 <= Len(t)
  /\ \A k \in 1..Len(lit) : Lower(t[p + k - 1]) = lit[k]
\* \s* : the positions reachable from a position of P over white space
SkipSpaces(t, P) ==
  {q \in 1..(Len(t) + 1) :
     \E p \in P : p <= q /\ \A k \in p..(q - 1) : IsSpace(t[k])}
WordAt(t, p) == p >= 1 /\ p <= Len(t) /\ IsWord(t[p])
\* \b between the characters at p - 1 and p
WordBoundary(t, p) == WordAt(t, p - 1) # WordAt(t, p)
\* re.search of a literal
Contains(t, lit) == \E p \in 1..Len(t) : Lit(t, p, lit)
Min(S) == CHOOSE x \in S : \A y \in S : x <= y

\* str.strip()
Strip(t) ==
  LET keep == {p \in 1..Len(t) : ~IsSpace(t[p])}
  IN  IF keep = {} THEN <<>>
      ELSE SubSeq(t, Min(keep), CHOOSE x \in keep : \A y \in keep : y <= x)

(* ---------------------------- RuleExtractor ---------------------------- *)
\* BI[-\s]?RADS?\s*[:\-]?\s*(\d) tried at position p: the positions of the
\* digit it captures (at most one)
BiradsDigitAt(t, p) ==
  LET P1 == IF Lit(t, p, <<"b", "i">>) THEN {p + 2} ELSE {}
      P2 == P1 \cup {q + 1 : q \in {q \in P1 : q <= Len(t)
                                      /\ (t[q] = "-" \/ IsSpace(t[q]))}}
      P3 == {q + 3 : q \in {q \in P2 : Lit(t, q, <<"r", "a", "d">>)}}
      P4 == P3 \cup {q + 1 : q \in {q \in P3 : q <= Len(t)
                                      /\ Lower(t[q]) = "s"}}
      P5 == SkipSpaces(t, P4)
      P6 == P5 \cup {q + 1 : q \in {q \in P5 : q <= Len(t)
                                      /\ t[q] \in {":", "-"}}}
      P7 == SkipSpaces(t, P6)
  IN  {q \in P7 : q <= Len(t) /\ IsDigit(t[q])}

extract_birads(text) ==
  LET starts == {p \in 1..Len(text) : BiradsDigitAt(text, p) # {}}
  IN  IF starts = {} THEN None
      ELSE PyInt(DigitVal[text[CHOOSE q \in BiradsDigitAt(text, Min(starts)) : TRUE]])

\* the four (pattern, code) pairs, in the order the loop tries them
patterns_swapped ==
  << [lit |-> <<"s","c","a","t","t","e","r","e","d"," ","f","i","b","r","o",
                "g","l","a","n","d","u","l","a","r">>,
      letter |-> "b", code |-> "B"],
     [lit |-> <<"h","e","t","e","r","o","g","e","n","e","o","u","s","l","y",
                " ","d","e","n","s","e">>,
      letter |-> "c", code |-> "C"],
     [lit |-> <<"e","x","t","r","e","m","e","l","y"," ","d","e","n","s","e">>,
      letter |-> "d", code |-> "D"],
     [lit |-> <<"a","l","m","o","s","t"," ","e","n","t","i","r","e","l","y",
                " ","f","a","t","t","y">>,
      letter |-> "a", code |-> "A"] >>
patterns ==
  << [lit |-> <<"e","x","t","r","e","m","e","l","y"," ","d","e","n","s","e">>,
      letter |-> "d", code |-> "D"],
     [lit |-> <<"h","e","t","e","r","o","g","e","n","e","o","u","s","l","y",
                " ","d","e","n","s","e">>,
      letter |-> "c", code |-> "C"],
     [lit |-> <<"s","c","a","t","t","e","r","e","d"," ","f","i","b","r","o",
                "g","l","a","n","d","u","l","a","r">>,
      letter |-> "b", code |-> "B"],
     [lit |-> <<"a","l","m","o","s","t"," ","e","n","t","i","r","e","l","y",
                " ","f","a","t","t","y">>,
      letter |-> "a", code |-> "A"] >>

\* density\s*X\b
DensityLetter(t, letter) ==
  \E p \in 1..Len(t) :
    /\ Lit(t, p, <<"d", "e", "n", "s", "i", "t", "y">>)
    /\ \E q \in SkipSpaces(t, {p + 7}) :
         q <= Len(t) /\ Lower(t[q]) = letter /\ WordBoundary(t, q + 1)
\* re.search(pat, text, re.IGNORECASE) for one pair of the list
PatternMatches(t, pat) == Contains(t, pat.lit) \/ DensityLetter(t, pat.letter)

extract_density(text) ==
  LET hits == {n \in 1..Len(patterns) : PatternMatches(text, patterns[n])}
  IN  IF hits = {} THEN PyStr("unknown") ELSE PyStr(patterns[Min(hits)].code)

\* \bleft breast\b and \bright breast\b
WholeWord(t, lit) ==
  \E p \in 1..Len(t) :
    Lit(t, p, lit) /\ WordBoundary(t, p) /\ WordBoundary(t, p + Len(lit))
MatchesBilateral(t) ==
  \/ Contains(t, <<"b","i","l","a","t","e","r","a","l">>)
  \/ Contains(t, <<"b","o","t","h"," ","b","r","e","a","s","t","s">>)
MatchesLeft(t) == WholeWord(t, <<"l","e","f","t"," ","b","r","e","a","s","t">>)
MatchesRight(t) == WholeWord(t, <<"r","i","g","h","t"," ","b","r","e","a","s","t">>)

extract_laterality(text) ==
  IF MatchesBilateral(text) THEN PyStr("bilateral")
  ELSE IF MatchesLeft(text) THEN PyStr("left")
  ELSE IF MatchesRight(text) THEN PyStr("right")
  ELSE PyStr("unknown")

(* ---------------------------- TimeframePolicy -------------------------- *)
timeframe_table == [b \in 0..6 |->
  CASE b = 0 -> 7 [] b = 1 -> 365 [] b = 2 -> 365 [] b = 3 -> 180
    [] b = 4 -> 7 [] b = 5 -> 7 [] b = 6 -> 0]
timeframe_from_birads_zero_default(b) ==
  IF b = None THEN None
  ELSE IF b.t = "list" THEN Raised
  ELSE IF b.t = "int" /\ b.i \in DOMAIN timeframe_table
       THEN PyInt(timeframe_table[b.i])
       ELSE PyInt(0)
timeframe_from_birads(b) ==
  IF b = None THEN None
  ELSE IF b.t = "list" THEN Raised
  ELSE IF b.t = "int" /\ b.i \in DOMAIN timeframe_table
       THEN PyInt(timeframe_table[b.i])
       ELSE None

(* --------------------------- ExtractionMerger -------------------------- *)
\* k in llm and llm[k] not in [None, ""], for a dict
Overrides(d, k) == d[k] # Missing /\ d[k] # None /\ d[k] # PyStr("")
MergeFields_any_present(ext, d) ==
  [k \in KeySet |-> IF d[k] # Missing THEN d[k] ELSE ext[k]]
MergeFields(ext, d) ==
  [k \in KeySet |-> IF Overrides(d, k) THEN d[k] ELSE ext[k]]
\* the recomputation of an absent timeframe; raised when the lookup raises
Recompute_always(ext) ==
  LET tf == timeframe_from_birads(ext.birads)
  IN  IF tf = Raised THEN [rec |-> ext, raised |-> TRUE]
      ELSE [rec |-> [ext EXCEPT !.recommended_timeframe_days = tf],
            raised |-> FALSE]
Recompute(ext) ==
  LET tf == timeframe_from_birads(ext.birads)
  IN  IF ext.recommended_timeframe_days # None
      THEN [rec |-> ext, raised |-> FALSE]
      ELSE IF tf = Raised THEN [rec |-> ext, raised |-> TRUE]
      ELSE [rec |-> [ext EXCEPT !.recommended_timeframe_days = tf],
            raised |-> FALSE]
\* the loop over the keys and the recomputation, for any parsed response
merge_block(ext, l) ==
  IF l.shape = "scalar" THEN [rec |-> ext, raised |-> TRUE]
  ELSE IF l.shape = "seq" /\ \E k \in KeySet : l.d[k] # Missing
       THEN [rec |-> ext, raised |-> TRUE]
  ELSE IF l.shape = "seq" THEN Recompute(ext)
  ELSE Recompute(MergeFields(ext, l.d))

(* --------------------------- FollowUpScheduler ------------------------- *)
\* datetime.date arithmetic: a date is [y, m, d]; date + timedelta(days = n)
\* is fromordinal(toordinal() + n)
DAYS_IN_MONTH == <<31, 28, 31, 30, 31, 30, 31, 31, 30, 31, 30, 31>>
DAYS_BEFORE_MONTH == <<0, 31, 59, 90, 120, 151, 181, 212, 243, 273, 304, 334>>
is_leap(y) == y % 4 = 0 /\ (y % 100 # 0 \/ y % 400 = 0)
days_before_year(year) ==
  LET y == year - 1
  IN  y * 365 + (y \div 4) - (y \div 100) + (y \div 400)
days_before_month(y, m) ==
  DAYS_BEFORE_MONTH[m] + (IF m > 2 /\ is_leap(y) THEN 1 ELSE 0)
ymd2ord(date) ==
  days_before_year(date.y) + days_before_month(date.y, date.m) + date.d
DI400Y == 146097
DI100Y == 36524
DI4Y == 1461
ord2ymd(ordinal) ==
  LET n0 == ordinal - 1
      n400 == n0 \div DI400Y
      r400 == n0 % DI400Y
      n100 == r400 \div DI100Y
      r100 == r400 % DI100Y
      n4 == r100 \div DI4Y
      r4 == r100 % DI4Y
      n1 == r4 \div 365
      n == r4 % 365
      year == n400 * 400 + 1 + n100 * 100 + n4 * 4 + n1
      leapyear == n1 = 3 /\ (n4 # 24 \/ n100 = 3)
      month0 == (n + 50) \div 32
      preceding0 == DAYS_BEFORE_MONTH[month0]
                    + (IF month0 > 2 /\ leapyear THEN 1 ELSE 0)
      month == IF preceding0 > n THEN month0 - 1 ELSE month0
      preceding == IF preceding0 > n
                   THEN preceding0 - (DAYS_IN_MONTH[month]
                          + (IF month = 2 /\ leapyear THEN 1 ELSE 0))
                   ELSE preceding0
  IN  IF n1 = 4 \/ n100 = 4 THEN [y |-> year - 1, m |-> 12, d |-> 31]
      ELSE [y |-> year, m |-> month, d |-> n - preceding + 1]
date_plus_days_inclusive(date, n) == ord2ymd(ymd2ord(date) + n + 1)
date_plus_days(date, n) == ord2ymd(ymd2ord(date) + n)
\* strftime("%Y%m%d"), read as a number
strftime_Ymd(date) == date.y * 10000 + date.m * 100 + date.d
calendar_link(title, start_date) ==
  [text |-> title,
   dates |-> <<strftime_Ymd(start_date), strftime_Ymd(start_date)>>]

(* ---------------------------- SummaryRenderer -------------------------- *)
\* the values Python's "or" replaces
Falsy(v) == v \in {None, PyStr(""), PyInt(0)}
patient_summary(ext) ==
  [shown |-> TRUE,
   b |-> ext.birads, d |-> ext.density, lat |-> ext.laterality,
   findings |-> IF Falsy(ext.findings)
                THEN PyStr("not specified in the report") ELSE ext.findings,
   rec |-> IF Falsy(ext.recommendation)
           THEN PyStr("follow your care team's advice")
           ELSE ext.recommendation,
   when |-> ext.recommended_timeframe_days,
   dense_line |-> ext.density.t = "str" /\ ext.density.s \in {"C", "D", "c", "d"}]

(* ----------------------------- PDF decoding ---------------------------- *)
RECURSIVE JoinPages(_)
JoinPages(pages) ==
  IF Len(pages) = 0 THEN <<>>
  ELSE IF Len(pages) = 1 THEN pages[1]
  ELSE pages[1] \o <<"\n">> \o JoinPages(Tail(pages))
\* the text of the pages joined by newlines, "" when the reader raises
pdf_to_text(f) == IF f.readable THEN JoinPages(f.pages) ELSE <<>>

(* ----------------------------- report texts ---------------------------- *)
Fragments ==
  { <<"B","I","-","R","A","D","S"," ","3">>,
    <<"b","i","r","a","d","s",":","7"," ">>,
    <<"E","x","t","r","e","m","e","l","y"," ","D","e","n","s","e">>,
    <<" ","d","e","n","s","i","t","y"," ","B">>,
    <<"h","e","t","e","r","o","g","e","n","e","o","u","s","l","y"," ",
      "d","e","n","s","e">>,
    <<"a","l","m","o","s","t"," ","e","n","t","i","r","e","l","y"," ",
      "f","a","t","t","y">>,
    <<"b","i","l","a","t","e","r","a","l">>,
    <<"L","e","f","t"," ","b","r","e","a","s","t">>,
    <<" ","r","i","g","h","t"," ","b","r","e","a","s","t">>,
    <<" ">> }
RECURSIVE TextsOf(_)
TextsOf(n) ==
  IF n = 0 THEN {<<>>}
  ELSE LET shorter == TextsOf(n - 1)
       IN  shorter \cup {a \o f : a \in shorter, f \in Fragments}
Texts == TextsOf(MaxFragments)

(* ------------------------- states outside a run ------------------------ *)
NoFile == [name |-> "", readable |-> FALSE, pages |-> <<>>]
NoDate == [y |-> 0, m |-> 0, d |-> 0]
NoLink == [text |-> "", dates |-> <<0, 0>>]
NoRecord == [k \in KeySet |-> Missing]
NoSummary == [shown |-> FALSE, b |-> None, d |-> None, lat |-> None,
              findings |-> None, rec |-> None, when |-> None,
              dense_line |-> FALSE]

(* ---------------- the extractors applied to bounded texts -------------- *)
ExtractInit ==
  /\ pc = "text"
  /\ raw_text \in Texts
  /\ text_input = <<>> /\ file = NoFile /\ use_llm = FALSE
  /\ base = NoRecord /\ extraction = NoRecord /\ llm = EmptyDict
  /\ llmEvent = "none" /\ today = NoDate /\ due = NoDate /\ cal = NoLink
  /\ summary = NoSummary /\ message = "none" /\ sms = "none"
  /\ result = None

ApplyExtractBirads ==
  /\ pc = "text"
  /\ pc' = "birads"
  /\ result' = extract_birads(raw_text)
  /\ UNCHANGED <<text_input, file, use_llm, raw_text, base, extraction, llm,
                 llmEvent, today, due, cal, summary, message, sms>>
ApplyExtractDensity ==
  /\ pc = "text"
  /\ pc' = "density"
  /\ result' = extract_density(raw_text)
  /\ UNCHANGED <<text_input, file, use_llm, raw_text, base, extraction, llm,
                 llmEvent, today, due, cal, summary, message, sms>>
ApplyExtractLaterality ==
  /\ pc = "text"
  /\ pc' = "laterality"
  /\ result' = extract_laterality(raw_text)
  /\ UNCHANGED <<text_input, file, use_llm, raw_text, base, extraction, llm,
                 llmEvent, today, due, cal, summary, message, sms>>

ExtractNext == ApplyExtractBirads \/ ApplyExtractDensity \/ ApplyExtractLaterality
ExtractSpec == ExtractInit /\ [][ExtractNext]_vars

(* ------- the lookup and the merge applied to bounded records ----------- *)
BaseRecords ==
  {[birads |-> b, density |-> d, laterality |-> PyStr("left"),
    findings |-> f, recommendation |-> PyStr(""),
    recommended_timeframe_days |-> tf] :
     b \in {None} \cup {PyInt(n) : n \in (-1)..MaxBirads},
     d \in {PyStr("A"), PyStr("unknown")},
     f \in {PyStr(""), PyStr("cyst")},
     tf \in {None, PyInt(0), PyInt(180)}}
PartialRecords ==
  {[birads |-> b, density |-> d, laterality |-> l,
    findings |-> f, recommendation |-> r,
    recommended_timeframe_days |-> tf] :
     b \in {Missing, None, PyInt(5), PyInt(9)},
     d \in {Missing, PyStr(""), PyStr("C")},
     l \in {Missing, PyStr("right")},
     f \in {Missing, PyStr(""), PyStr("mass")},
     r \in {Missing, PyStr("biopsy")},
     tf \in {Missing, None, PyInt(30)}}

MergeInit ==
  /\ pc = "records"
  /\ base \in BaseRecords
  /\ llm \in {[shape |-> "dict", d |-> d] : d \in PartialRecords}
  /\ extraction = base
  /\ text_input = <<>> /\ file = NoFile /\ use_llm = TRUE /\ raw_text = <<>>
  /\ llmEvent = "none" /\ today = NoDate /\ due = NoDate /\ cal = NoLink
  /\ summary = NoSummary /\ message = "none" /\ sms = "none"
  /\ result = None

ApplyTimeframe ==
  /\ pc = "records"
  /\ pc' = "timeframe"
  /\ result' = timeframe_from_birads(base.birads)
  /\ UNCHANGED <<text_input, file, use_llm, raw_text, base, extraction, llm,
                 llmEvent, today, due, cal, summary, message, sms>>
ApplyMerge ==
  /\ pc = "records"
  /\ pc' = IF merge_block(extraction, llm).raised THEN "raised" ELSE "merged"
  /\ extraction' = merge_block(extraction, llm).rec
  /\ UNCHANGED <<text_input, file, use_llm, raw_text, base, llm, llmEvent,
                 today, due, cal, summary, message, sms, result>>

MergeNext == ApplyTimeframe \/ ApplyMerge
MergeSpec == MergeInit /\ [][MergeNext]_vars

(* ------------------- one run of "Generate my summary" ------------------ *)
Reports == TextsOf(MaxReportFragments)
Files ==
  { NoFile,
    [name |-> "report.pdf", readable |-> FALSE, pages |-> <<>>],
    [name |-> "report.pdf", readable |-> TRUE, pages |-> << <<>> >>],
    [name |-> "report.pdf", readable |-> TRUE,
     pages |-> << <<"B","I","-","R","A","D","S"," ","3">>,
                  <<"r","i","g","h","t"," ","b","r","e","a","s","t">> >>] }
\* the parsed responses of the completion service
DictResponses ==
  {[birads |-> b, density |-> r[1], laterality |-> r[2],
    findings |-> r[3], recommendation |-> r[4],
    recommended_timeframe_days |-> tf] :
     b \in {Missing, PyInt(5), PyInt(9), PyStr("high"), List},
     r \in { <<Missing, Missing, Missing, Missing>>,
             <<PyStr("C"), PyStr("left"), PyStr("mass"), PyStr("biopsy")>> },
     tf \in {Missing, None, PyInt(30), PyInt(-5), PyStr("soon")}}
Responses ==
  {[shape |-> "dict", d |-> d] : d \in DictResponses}
  \cup {[shape |-> "scalar", d |-> NoRecord],
        [shape |-> "seq", d |-> NoRecord],
        [shape |-> "seq", d |-> [NoRecord EXCEPT !.birads = PyStr("birads")]]}
Todays == {[y |-> 2024, m |-> 1, d |-> 1], [y |-> 2024, m |-> 2, d |-> 28],
           [y |-> 2023, m |-> 12, d |-> 31]}

Init ==
  /\ pc = "page"
  /\ text_input \in Reports
  /\ file \in Files
  /\ use_llm \in BOOLEAN
  /\ raw_text = <<>> /\ base = NoRecord /\ extraction = NoRecord
  /\ llm = EmptyDict /\ llmEvent = "none"
  /\ today = NoDate /\ due = NoDate /\ cal = NoLink
  /\ summary = NoSummary /\ message = "none" /\ sms = "none"
  /\ result = None

\* lines 147-158: the two checks for text, st.error and st.stop
Generate ==
  /\ pc = "page"
  /\ LET pasted == Strip(text_input)
         decoded == IF file # NoFile /\ file.name # "" THEN pdf_to_text(file)
                    ELSE <<>>
         text == IF decoded # <<>> THEN decoded ELSE pasted
     IN  IF file = NoFile /\ pasted = <<>>
         THEN /\ pc' = "halted"
              /\ message' = "Please upload a PDF or paste report text."
              /\ UNCHANGED raw_text
         ELSE /\ raw_text' = text
              /\ IF Strip(text) = <<>>
                 THEN /\ pc' = "halted"
                      /\ message' = "We could not read text from the PDF."
                 ELSE /\ pc' = "text"
                      /\ UNCHANGED message
  /\ UNCHANGED <<text_input, file, use_llm, base, extraction, llm, llmEvent,
                 today, due, cal, summary, sms, result>>

\* lines 160-172
BaseExtraction ==
  /\ pc = "text"
  /\ LET birads == extract_birads(raw_text)
         rec == [birads |-> birads,
                 density |-> extract_density(raw_text),
                 laterality |-> extract_laterality(raw_text),
                 findings |-> PyStr(""),
                 recommendation |-> PyStr(""),
                 recommended_timeframe_days |-> timeframe_from_birads(birads)]
     IN  extraction' = rec /\ base' = rec
  /\ pc' = "extracted"
  /\ UNCHANGED <<text_input, file, use_llm, raw_text, llm, llmEvent, today,
                 due, cal, summary, message, sms, result>>

\* llm_extract: {} without a key, {} when anything in the try block raises,
\* otherwise whatever json.loads returns
\* what the call of the service does: it raises, its content is not JSON,
\* or its content parses to a value
Outcomes ==
  {[kind |-> k, value |-> EmptyDict] : k \in {"network_error", "not_json"}}
  \cup {[kind |-> "parsed", value |-> r] : r \in Responses}
llm_extract(api_key, outcome) ==
  IF ~api_key THEN [event |-> "no_key", value |-> EmptyDict]
  ELSE IF outcome.kind # "parsed"
       THEN [event |-> outcome.kind, value |-> EmptyDict]
  ELSE [event |-> "parsed", value |-> outcome.value]

\* line 176
CallLlm ==
  /\ pc = "extracted" /\ use_llm
  /\ \E api_key \in BOOLEAN :
       \E outcome \in Outcomes :
         /\ llm' = llm_extract(api_key, outcome).value
         /\ llmEvent' = llm_extract(api_key, outcome).event
  /\ pc' = "llm"
  /\ UNCHANGED <<text_input, file, use_llm, raw_text, base, extraction, today,
                 due, cal, summary, message, sms, result>>

\* lines 177-181
Merge ==
  /\ pc = "llm"
  /\ extraction' = merge_block(extraction, llm).rec
  /\ pc' = IF merge_block(extraction, llm).raised THEN "crashed" ELSE "merged"
  /\ UNCHANGED <<text_input, file, use_llm, raw_text, base, llm, llmEvent,
                 today, due, cal, summary, message, sms, result>>

\* lines 183-194
Render ==
  /\ \/ pc = "extracted" /\ ~use_llm
     \/ pc = "merged"
  /\ summary' = patient_summary(extraction)
  /\ pc' = "rendered"
  /\ UNCHANGED <<text_input, file, use_llm, raw_text, base, extraction, llm,
                 llmEvent, today, due, cal, message, sms, result>>

\* lines 196-203; comparing a string with 0 raises TypeError
Plan ==
  /\ pc = "rendered"
  /\ \E now \in Todays :
       LET tf == extraction.recommended_timeframe_days
       IN  /\ today' = now
           /\ IF tf = None
              THEN pc' = "planned" /\ UNCHANGED <<due, cal>>
              ELSE IF tf.t # "int"
              THEN pc' = "crashed" /\ UNCHANGED <<due, cal>>
              ELSE IF tf.i >= 0
              THEN /\ due' = date_plus_days(now, tf.i)
                   /\ cal' = calendar_link("Mammogram follow-up",
                                           date_plus_days(now, tf.i))
                   /\ pc' = "planned"
              ELSE pc' = "planned" /\ UNCHANGED <<due, cal>>
  /\ UNCHANGED <<text_input, file, use_llm, raw_text, base, extraction, llm,
                 llmEvent, summary, message, sms, result>>

\* lines 205-222; the message reads due, which is unbound when no date was
\* planned for a timeframe that is not None: the NameError is caught
SendSms ==
  /\ pc = "planned"
  /\ \E clicked \in BOOLEAN, configured \in BOOLEAN, delivered \in BOOLEAN :
       sms' = IF ~clicked THEN "none"
              ELSE IF ~configured THEN "warning"
              ELSE IF extraction.recommended_timeframe_days # None
                      /\ due = NoDate THEN "error"
              ELSE IF delivered THEN "sent" ELSE "error"
  /\ pc' = "done"
  /\ UNCHANGED <<text_input, file, use_llm, raw_text, base, extraction, llm,
                 llmEvent, today, due, cal, summary, message, result>>

Next == Generate \/ BaseExtraction \/ CallLlm \/ Merge \/ Render \/ Plan \/ SendSms
Spec == Init /\ [][Next]_vars

(* ------------------------------ properties ----------------------------- *)
TimeframeKey == "recommended_timeframe_days"
InTable(b) == b.t = "int" /\ b.i \in 0..6

\* C1: timeframe_from_birads gives 7, 365, 365, 180, 7, 7, 0 for BI-RADS
\* 0..6 and None for an absent BI-RADS and for every integer outside 0..6.
C1_TimeframeTable ==
  pc = "timeframe" =>
    LET b == base.birads
    IN  /\ b = None => result = None
        /\ b = PyInt(0) => result = PyInt(7)
        /\ b = PyInt(1) => result = PyInt(365)
        /\ b = PyInt(2) => result = PyInt(365)
        /\ b = PyInt(3) => result = PyInt(180)
        /\ b = PyInt(4) => result = PyInt(7)
        /\ b = PyInt(5) => result = PyInt(7)
        /\ b = PyInt(6) => result = PyInt(0)
        /\ (b.t = "int" /\ (b.i < 0 \/ b.i > 6)) => result = None
C1_Witness ==
  pc = "timeframe" /\ base.birads = PyInt(6) /\ result = PyInt(0)

\* C2: the merge gives each field the enrichment value when that value is
\* present, not null and not "", and the base value otherwise; a timeframe
\* still absent after that is the lookup of the merged BI-RADS.
EnrichedOrBase(k) ==
  IF llm.d[k] \notin {Missing, None, PyStr("")} THEN llm.d[k] ELSE base[k]
C2_MergeOverride ==
  pc = "merged" =>
    /\ \A k \in KeySet \ {TimeframeKey} : extraction[k] = EnrichedOrBase(k)
    /\ extraction[TimeframeKey] =
         IF EnrichedOrBase(TimeframeKey) # None
         THEN EnrichedOrBase(TimeframeKey)
         ELSE timeframe_from_birads(EnrichedOrBase("birads"))
C2_Witness ==
  /\ pc = "merged"
  /\ base.birads = PyInt(3) /\ base[TimeframeKey] = None
  /\ llm.d.birads = PyInt(5) /\ llm.d[TimeframeKey] = Missing
  /\ extraction.birads = PyInt(5) /\ extraction[TimeframeKey] = PyInt(7)

\* C3 as stated: merging an empty enrichment record leaves every base
\* record unchanged in all six fields.
C3_EmptyEnrichmentIdentity ==
  (pc = "merged" /\ llm = EmptyDict) => extraction = base
\* C3 amended: merging an empty enrichment record leaves the five other
\* fields unchanged and keeps a timeframe that is present; an absent
\* timeframe becomes the lookup of the base BI-RADS, so the record is
\* unchanged only when that BI-RADS is absent or outside 0..6.
C3_EmptyEnrichmentAmended ==
  (pc = "merged" /\ llm = EmptyDict) =>
    IF base[TimeframeKey] # None \/ ~InTable(base.birads)
    THEN extraction = base
    ELSE extraction =
           [base EXCEPT ![TimeframeKey] = PyInt(timeframe_table[base.birads.i])]
C3_Witness ==
  /\ pc = "merged" /\ llm = EmptyDict
  /\ base.birads = PyInt(3) /\ base[TimeframeKey] = None
  /\ extraction[TimeframeKey] = PyInt(180)

\* the response has the six required keys with the types of the schema
MatchesSchema(l) ==
  /\ l.shape = "dict"
  /\ l.d.birads.t = "int" /\ l.d[TimeframeKey].t = "int"
  /\ \A k \in {"density", "laterality", "findings", "recommendation"} :
       l.d[k].t = "str"
\* C4: without a credential, or when the call fails (service error, content
\* that is not JSON, content that does not match the schema), llm_extract
\* returns the empty record, nothing is raised and the final record is the
\* rule-based baseline.
C4_FailureGivesBaseline ==
  (/\ use_llm /\ llmEvent # "none"
   /\ \/ llmEvent \in {"no_key", "network_error", "not_json"}
      \/ ~MatchesSchema(llm)) =>
    /\ llm = EmptyDict
    /\ pc # "crashed"
    /\ pc \in {"merged", "rendered", "planned", "done"} => extraction = base

\* C5: the BI-RADS of every record of a run is absent or an integer of 0..6.
C5_BiradsInRange ==
  pc \in {"extracted", "llm", "merged", "rendered", "planned", "done"} =>
    (extraction.birads = None \/ InTable(extraction.birads))

\* C6: the timeframe of a final record is never negative, and when it is
\* present and the enrichment did not supply it, it is the lookup of the
\* final BI-RADS.
C6_TimeframeDerived ==
  pc \in {"rendered", "planned", "done"} =>
    LET tf == extraction[TimeframeKey]
        supplied == use_llm /\ llm.shape = "dict" /\ Overrides(llm.d, TimeframeKey)
    IN  /\ tf.t = "int" => tf.i >= 0
        /\ (tf # None /\ ~supplied) => tf = timeframe_from_birads(extraction.birads)

\* calendar-day addition, one month at a time
DaysIn(y, m) ==
  IF m = 2 THEN (IF y % 4 = 0 /\ (y % 100 # 0 \/ y % 400 = 0) THEN 29 ELSE 28)
  ELSE IF m \in {4, 6, 9, 11} THEN 30 ELSE 31
RECURSIVE PlusDays(_, _)
PlusDays(date, n) ==
  IF date.d + n <= DaysIn(date.y, date.m) THEN [date EXCEPT !.d = date.d + n]
  ELSE PlusDays([y |-> IF date.m = 12 THEN date.y + 1 ELSE date.y,
                 m |-> IF date.m = 12 THEN 1 ELSE date.m + 1,
                 d |-> 1],
                n - (DaysIn(date.y, date.m) - date.d + 1))
C8_NeverSingleSided ==
  (/\ pc = "laterality"
   /\ \/ Contains(raw_text, <<"b","i","l","a","t","e","r","a","l">>)
      \/ Contains(raw_text, <<"b","o","t","h"," ","b","r","e","a","s","t","s">>)
      \/ /\ Contains(raw_text, <<"l","e","f","t"," ","b","r","e","a","s","t">>)
         /\ Contains(raw_text, <<"r","i","g","h","t"," ","b","r","e","a","s","t">>))
    => result \notin {PyStr("left"), PyStr("right")}

GroupD(t) ==
  Contains(t, <<"e","x","t","r","e","m","e","l","y"," ","d","e","n","s","e">>)
  \/ DensityLetter(t, "d")
GroupC(t) ==
  Contains(t, <<"h","e","t","e","r","o","g","e","n","e","o","u","s","l","y",
                " ","d","e","n","s","e">>)
  \/ DensityLetter(t, "c")
GroupB(t) ==
  Contains(t, <<"s","c","a","t","t","e","r","e","d"," ","f","i","b","r","o",
                "g","l","a","n","d","u","l","a","r">>)
  \/ DensityLetter(t, "b")
GroupA(t) ==
  Contains(t, <<"a","l","m","o","s","t"," ","e","n","t","i","r","e","l","y",
                " ","f","a","t","t","y">>)
  \/ DensityLetter(t, "a")
\* C9: extract_density gives D when the D group matches, else C when the C
\* group matches, else B, else A, and unknown when no group matches.
C9_DensityPriority ==
  pc = "density" =>
    result = PyStr(IF GroupD(raw_text) THEN "D"
                   ELSE IF GroupC(raw_text) THEN "C"
                   ELSE IF GroupB(raw_text) THEN "B"
                   ELSE IF GroupA(raw_text) THEN "A"
                   ELSE "unknown")
C9_Witness ==
  /\ pc = "density"
  /\ Contains(raw_text, <<"e","x","t","r","e","m","e","l","y"," ","d","e","n","s","e">>)
  /\ DensityLetter(raw_text, "b")
  /\ result = PyStr("D")

\* C10: a run with report text always renders the summary: nothing raised by
\* the enrichment or the SMS path ends the run before the summary, and only
\* a run without any text halts, before extraction and with a message.
C10_SummaryAlwaysRendered ==
  /\ pc = "crashed" => summary.shown
  /\ pc = "done" => summary.shown
  /\ pc = "halted" =>
       /\ message # "none"
       /\ extraction = NoRecord
       /\ Strip(text_input) = <<>>
       /\ Strip(pdf_to_text(file)) = <<>>

====
